---- MODULE Spec2Model ----
(***************************************************************************)
(* The /availability handler of campfinder (src/main.py, get_availability) *)
(* as a state machine: one request is resolved campground by campground,   *)
(* each campground month by month against the upstream availability API.   *)
(*                                                                         *)
(* Representation of the Python values:                                    *)
(*   - campground names, campground ids, result keys and status strings    *)
(*     are sequences of one-character strings, so that str.lower() and     *)
(*     str.startswith() are computed character by character;               *)
(*   - site ids and site names are opaque strings;                         *)
(*   - a datetime is <<year, month, day>>; a formatted timestamp is the    *)
(*     date followed by the literal tail of its strftime format;           *)
(*   - an f-string is the tuple of its literal and interpolated parts;     *)
(*   - an insertion-ordered dict whose order is observable is a sequence   *)
(*     of [k, v] items; results and all_sites are functions.               *)
(***************************************************************************)
EXTENDS Integers, Sequences, FiniteSets, TLC

VARIABLES
    campgroundName,   \* request: the list of campground names
    startDate,        \* request: first night, <<y, m, d>>
    endDate,          \* request: last night, <<y, m, d>>
    target_dates,     \* the night keys of the range, in order
    results,          \* result key -> entry
    all_sites,        \* site id -> site display name
    pc,               \* "loop" | "fetch" | "done" | "crashed"
    idx,              \* position of the campground loop in campgroundName
    campgroundId,     \* id the current name resolved to (NoneId: unresolved)
    months,           \* month anchors of the current campground, ascending
    mi,               \* position of the month loop in months
    all_avail_data,   \* merged site map of the current campground
    requests,         \* upstream: the GET requests received so far
    fetched,          \* upstream: what each month of the current campground returned
    failures          \* campground id -> months whose fetch raised, last time it was processed

vars == <<campgroundName, startDate, endDate, target_dates, results, all_sites,
          pc, idx, campgroundId, months, mi, all_avail_data, requests, fetched,
          failures>>

-----------------------------------------------------------------------------
(* Strings *)

S_all_sites == <<"a","l","l","_","s","i","t","e","s">>
S_CampDick == <<"C","a","m","p"," ","D","i","c","k">>
S_KELLYDAHL == <<"K","E","L","L","Y"," ","D","A","H","L">>
S_Nonexistent == <<"N","o","n","e","x","i","s","t","e","n","t"," ","C","a","m","p">>
S_232369 == <<"2","3","2","3","6","9">>
S_Available == <<"A","v","a","i","l","a","b","l","e">>
S_AvailableTent == <<"A","v","a","i","l","a","b","l","e"," ","-"," ","T","e","n","t">>
S_Open == <<"O","p","e","n">>
S_open == <<"o","p","e","n">>
S_Reserved == <<"R","e","s","e","r","v","e","d">>
S_NotAvailable == <<"N","o","t"," ","A","v","a","i","l","a","b","l","e">>
S_Missing == <<"M","i","s","s","i","n","g">>

UpperCase == <<"A","B","C","D","E","F","G","H","I","J","K","L","M",
               "N","O","P","Q","R","S","T","U","V","W","X","Y","Z">>
LowerCase == <<"a","b","c","d","e","f","g","h","i","j","k","l","m",
               "n","o","p","q","r","s","t","u","v","w","x","y","z">>

\* str.lower() on one character
LowerChar(c) ==
    IF \E i \in 1..Len(UpperCase) : UpperCase[i] = c
    THEN LowerCase[CHOOSE i \in 1..Len(UpperCase) : UpperCase[i] = c]
    ELSE c

\* str.lower()
Lower(s) == [i \in 1..Len(s) |-> LowerChar(s[i])]

\* str.startswith(prefix)
StartsWith(s, prefix) ==
    /\ Len(s) >= Len(prefix)
    /\ SubSeq(s, 1, Len(prefix)) = prefix

-----------------------------------------------------------------------------
(* The campground directory *)

CAMPGROUND_LOOKUP == <<
    [id |-> <<"2","3","2","3","6","9">>,
     name |-> <<"C","a","m","p"," ","D","i","c","k">>],
    [id |-> <<"2","3","2","4","6","2">>,
     name |-> <<"G","l","a","c","i","e","r"," ","B","a","s","i","n">>],
    [id |-> <<"2","3","2","2","8","1">>,
     name |-> <<"O","l","i","v","e"," ","R","i","d","g","e">>],
    [id |-> <<"2","3","2","3","6","8">>,
     name |-> <<"P","e","a","c","e","f","u","l"," ","V","a","l","l","e","y">>],
    [id |-> <<"2","3","2","2","8","0">>,
     name |-> <<"K","e","l","l","y"," ","D","a","h","l">>],
    [id |-> <<"2","3","2","2","8","2">>,
     name |-> <<"P","a","w","n","e","e"," ","C","a","m","p","g","r","o","u","n","d">>],
    [id |-> <<"2","3","1","8","6","2">>,
     name |-> <<"S","t","i","l","l","w","a","t","e","r"," ","C","a","m","p","g","r","o","u","n","d">>],
    [id |-> <<"2","3","1","8","6","1">>,
     name |-> <<"G","r","e","e","n"," ","R","i","d","g","e"," ","C","a","m","p","g","r","o","u","n","d">>],
    [id |-> <<"2","3","2","4","6","3">>,
     name |-> <<"M","o","r","a","i","n","e"," ","P","a","r","k"," ","C","a","m","p","g","r","o","u","n","d">>],
    [id |-> <<"2","3","3","1","8","7">>,
     name |-> <<"A","s","p","e","n","g","l","e","n"," ","C","a","m","p","g","r","o","u","n","d">>],
    [id |-> <<"2","6","0","5","5","2">>,
     name |-> <<"T","i","m","b","e","r"," ","C","r","e","e","k"," ","C","a","m","p","g","r","o","u","n","d">>],
    [id |-> <<"2","3","1","8","6","0">>,
     name |-> <<"A","r","a","p","a","h","o"," ","B","a","y"," ","C","a","m","p","g","r","o","u","n","d">>]
>>

\* None, as dict.get returns it for a missing key
NoneId == <<>>

\* name_to_id = {v.lower(): k for k, v in CAMPGROUND_LOOKUP.items()}, as the
\* items of the comprehension in order
name_to_id ==
    [i \in 1..Len(CAMPGROUND_LOOKUP) |->
        [k |-> Lower(CAMPGROUND_LOOKUP[i].name), v |-> CAMPGROUND_LOOKUP[i].id]]

\* name_to_id.get(key): the comprehension keeps the last item of a repeated key
NameToIdGet(key) ==
    LET hits == {i \in 1..Len(name_to_id) : name_to_id[i].k = key}
    IN IF hits = {} THEN NoneId
       ELSE name_to_id[CHOOSE i \in hits : \A j \in hits : j <= i].v

\* CAMPGROUND_LOOKUP.get(campgroundId, f"Campground {campgroundId}")
LookupName(cid) ==
    IF \E i \in 1..Len(CAMPGROUND_LOOKUP) : CAMPGROUND_LOOKUP[i].id = cid
    THEN CAMPGROUND_LOOKUP[CHOOSE i \in 1..Len(CAMPGROUND_LOOKUP) : CAMPGROUND_LOOKUP[i].id = cid].name
    ELSE <<"C","a","m","p","g","r","o","u","n","d"," ">> \o cid

-----------------------------------------------------------------------------
(* Dates *)

IsLeap(y) == (y % 4 = 0) /\ ((y % 100 # 0) \/ (y % 400 = 0))

DaysInMonth(y, m) ==
    IF m = 2 THEN (IF IsLeap(y) THEN 29 ELSE 28)
    ELSE IF m \in {4, 6, 9, 11} THEN 30 ELSE 31

RECURSIVE DaysBeforeMonth(_, _)
DaysBeforeMonth(y, m) ==
    IF m = 1 THEN 0 ELSE DaysBeforeMonth(y, m - 1) + DaysInMonth(y, m - 1)

\* datetime.toordinal(): days since 0001-01-01, which is day 1
ToOrdinal(date) ==
    LET y == date[1] - 1
    IN (y * 365) + (y \div 4) - (y \div 100) + (y \div 400)
       + DaysBeforeMonth(date[1], date[2]) + date[3]

\* (end_date - start_date).days
DaysBetween(start_date, end_date) == ToOrdinal(end_date) - ToOrdinal(start_date)

NextDay(date) ==
    IF date[3] < DaysInMonth(date[1], date[2]) THEN <<date[1], date[2], date[3] + 1>>
    ELSE IF date[2] < 12 THEN <<date[1], date[2] + 1, 1>>
    ELSE <<date[1] + 1, 1, 1>>

\* start_date + datetime.timedelta(n), n >= 0
RECURSIVE PlusDays(_, _)
PlusDays(date, n) == IF n = 0 THEN date ELSE PlusDays(NextDay(date), n - 1)

\* strftime("%Y-%m-%dT00:00:00Z")
NightKey(date) == date \o <<"T00:00:00Z">>

\* strftime("%Y-%m-%dT00:00:00.000Z")
MonthParam(date) == date \o <<"T00:00:00.000Z">>

\* list(daterange(start, end)): range() of a negative number is empty
daterange(start_date, end_date) ==
    LET n == DaysBetween(start_date, end_date) + 1
    IN [i \in 1..(IF n > 0 THEN n ELSE 0) |-> NightKey(PlusDays(start_date, i - 1))]

\* datetime.strptime(d.split("T")[0], "%Y-%m-%d").replace(day=1)
MonthAnchor(d) ==
    LET date == SubSeq(d, 1, 3)
    IN <<date[1], date[2], 1>>

\* sorted(S) for a set of dates
RECURSIVE SortedDates(_)
SortedDates(S) ==
    IF S = {} THEN <<>>
    ELSE LET first == CHOOSE a \in S : \A b \in S : ToOrdinal(a) <= ToOrdinal(b)
         IN <<first>> \o SortedDates(S \ {first})

\* sorted(set(... for d in target_dates))
MonthsOf(dates) == SortedDates({MonthAnchor(dates[i]) : i \in 1..Len(dates)})

-----------------------------------------------------------------------------
(* Python dicts *)

\* key in d, for an insertion-ordered dict
DictHas(d, key) == \E i \in 1..Len(d) : d[i].k = key

\* d[key]
DictGet(d, key) == d[CHOOSE i \in 1..Len(d) : d[i].k = key].v

\* d[key] = value: a present key keeps its place, a new key goes last
DictSet(d, key, value) ==
    IF DictHas(d, key)
    THEN [i \in 1..Len(d) |-> IF d[i].k = key THEN [k |-> key, v |-> value] ELSE d[i]]
    ELSE Append(d, [k |-> key, v |-> value])

\* a.update(b) for two unordered mappings
DictUpdate(a, b) ==
    [x \in DOMAIN a \cup DOMAIN b |-> IF x \in DOMAIN b THEN b[x] ELSE a[x]]

\* the JSON value null
JsonNull == [json_null |-> TRUE]

IsNull(v) == "json_null" \in DOMAIN v

\* d.get(field, default) on a JSON object
GetOr(d, field, default) == IF field \in DOMAIN d THEN d[field] ELSE default

\* {}
EmptyDict == [x \in {} |-> x]

-----------------------------------------------------------------------------
(* The request handler's steps *)

\* Faulty variant of StoreResult: results[key].update(entry), the fields are
\* merged into the entry the key already holds
StoreResultMerging(res, key, entry) ==
    [x \in DOMAIN res \cup {key} |->
        IF x = key
        THEN (IF key \in DOMAIN res THEN DictUpdate(res[key], entry) ELSE entry)
        ELSE res[x]]

\* results[key] = entry: the entry replaces whatever the key held
StoreResult(res, key, entry) ==
    [x \in DOMAIN res \cup {key} |-> IF x = key THEN entry ELSE res[x]]

\* {"error": "Unknown campground name"}
UnknownEntry == [error |-> <<"Unknown campground name">>]

\* {"error": f"Failed to fetch month {month}: {str(e)}"}
FetchErrorEntry(month, cause) ==
    [error |-> <<"Failed to fetch month ", month, ": ", cause>>]

\* Faulty variant of FreshAvailData: the merged map of the previous campground
\* is kept
StaleAvailData == all_avail_data

\* all_avail_data = {} at the start of a campground
FreshAvailData == <<>>

\* Faulty variant of MergeSite: a night already present keeps its earlier
\* status
MergeSiteKeepingFirst(data, site_id, site_info) ==
    IF ~DictHas(data, site_id)
    THEN [data |-> DictSet(data, site_id, site_info), raised |-> ""]
    ELSE LET cur == DictGet(data, site_id)
         IN IF IsNull(cur) THEN [data |-> data, raised |-> "TypeError"]
            ELSE IF "availabilities" \notin DOMAIN cur THEN [data |-> data, raised |-> "KeyError"]
            ELSE IF IsNull(site_info) THEN [data |-> data, raised |-> "AttributeError"]
            ELSE [data |-> DictSet(data, site_id,
                              [cur EXCEPT !.availabilities =
                                  DictUpdate(GetOr(site_info, "availabilities", EmptyDict), @)]),
                  raised |-> ""]

\* The body of the loop over month_data["campsites"]: a new site is stored as
\* received; a known site has its availabilities updated in place, which
\* raises when the stored record is null (TypeError) or has no availabilities
\* (KeyError), or when the incoming record is null (AttributeError)
MergeSite(data, site_id, site_info) ==
    IF ~DictHas(data, site_id)
    THEN [data |-> DictSet(data, site_id, site_info), raised |-> ""]
    ELSE LET cur == DictGet(data, site_id)
         IN IF IsNull(cur) THEN [data |-> data, raised |-> "TypeError"]
            ELSE IF "availabilities" \notin DOMAIN cur THEN [data |-> data, raised |-> "KeyError"]
            ELSE IF IsNull(site_info) THEN [data |-> data, raised |-> "AttributeError"]
            ELSE [data |-> DictSet(data, site_id,
                              [cur EXCEPT !.availabilities =
                                  DictUpdate(@, GetOr(site_info, "availabilities", EmptyDict))]),
                  raised |-> ""]

\* The loop over the campsites from item i on: it stops at the first site that
\* raises, and the sites merged before it stay merged
RECURSIVE MergeItems(_, _, _)
MergeItems(data, items, i) ==
    IF i > Len(items) THEN [data |-> data, raised |-> ""]
    ELSE LET r == MergeSite(data, items[i].k, items[i].v)
         IN IF r.raised # "" THEN r ELSE MergeItems(r.data, items, i + 1)

\* What the try block does with one upstream response: the request or
\* raise_for_status or json() raises, or month_data.get raises on a body that
\* is no object, or the campsites are merged
MergeMonth(data, resp) ==
    IF "raise" \in DOMAIN resp THEN [data |-> data, raised |-> resp.raise]
    ELSE IF IsNull(resp.json) THEN [data |-> data, raised |-> "AttributeError"]
    ELSE MergeItems(data, GetOr(resp.json, "campsites", <<>>), 1)

\* Faulty variant of NextMonth: `break` for `continue`, the month loop ends at
\* the first month that raised
NextMonthBreaking(m, n, raised) == IF raised THEN n + 1 ELSE m + 1

\* The month loop moves to the next month, whether the month raised or not
NextMonth(m, n, raised) == m + 1

\* Faulty variant of IsAvailable: equality for startswith
IsAvailableExact(status) == status = S_Available \/ status = S_Open

\* status.startswith("Available") or status.startswith("Open")
IsAvailable(status) == StartsWith(status, S_Available) \/ StartsWith(status, S_Open)

\* site_status[date] of a site record
SiteStatus(site_data, date) ==
    LET all_avail == GetOr(site_data, "availabilities", EmptyDict)
    IN IF date \in DOMAIN all_avail THEN all_avail[date] ELSE S_Missing

\* sum(1 for date in target_dates if ...)
AvailableNights(site_data, dates) ==
    Cardinality({i \in 1..Len(dates) : IsAvailable(SiteStatus(site_data, dates[i]))})

\* site_data.get("site", f"Site {site_id}")
SiteName(site_id, site_data) == GetOr(site_data, "site", "Site " \o site_id)

\* f"{site_name} ({available_nights} nights)"
Label(site_name, available_nights) == <<site_name, " (", available_nights, " nights)">>

\* The loop over all_avail_data from item i on, with the lists and the site
\* index built so far; site_data.get on a null record raises outside any try
RECURSIVE ClassifySites(_, _, _, _)
ClassifySites(data, dates, i, acc) ==
    IF i > Len(data) THEN acc
    ELSE IF IsNull(data[i].v) THEN [acc EXCEPT !.crashed = TRUE]
    ELSE LET site_id == data[i].k
             site_name == SiteName(site_id, data[i].v)
             available_nights == AvailableNights(data[i].v, dates)
             lbl == Label(site_name, available_nights)
         IN ClassifySites(data, dates, i + 1,
                [acc EXCEPT
                    !.fully = IF available_nights = Len(dates) THEN Append(@, lbl) ELSE @,
                    !.partially = IF available_nights # Len(dates) /\ available_nights > 0
                                  THEN Append(@, lbl) ELSE @,
                    !.sites = DictUpdate(@, [x \in {site_id} |-> site_name])])

\* The success entry of a campground
SuccessEntry(cid, dates, fully, partially) ==
    [campground_name |-> LookupName(cid),
     target_dates |-> dates,
     fully_available_sites |-> fully,
     partially_available_sites |-> partially]

-----------------------------------------------------------------------------
(* Bounds and inputs *)

\* longest list of campground names in a request
MaxNames == 2

\* the end dates reach from 2025-08-31 this many days on
MaxSpan == 1

RequestNames ==
    {S_CampDick, S_KELLYDAHL, S_Nonexistent, S_all_sites, S_232369}

RECURSIVE ListsOfLength(_)
ListsOfLength(n) ==
    IF n = 0 THEN {<<>>}
    ELSE {Append(l, x) : l \in ListsOfLength(n - 1), x \in RequestNames}

\* campgroundName is a required query parameter: at least one name
RequestLists == UNION {ListsOfLength(n) : n \in 1..MaxNames}

StartDates == {<<2025, 8, 30>>, <<2025, 8, 31>>, <<2025, 9, 1>>}

EndDates == {PlusDays(<<2025, 8, 31>>, n) : n \in 0..MaxSpan}

K30 == NightKey(<<2025, 8, 30>>)
K31 == NightKey(<<2025, 8, 31>>)
K01 == NightKey(<<2025, 9, 1>>)

\* What the upstream may answer to one month request: an error of the
\* transport, of the status or of the JSON decoding, or a JSON body
UpstreamResponses == {
    [raise |-> "HTTPStatusError"],
    [json |-> JsonNull],
    [json |-> EmptyDict],
    [json |-> [campsites |-> <<
        [k |-> "A", v |-> [site |-> "A1",
                           availabilities |-> (K30 :> S_Available) @@ (K31 :> S_AvailableTent)
                                              @@ (K01 :> S_NotAvailable)]] >>]],
    [json |-> [campsites |-> <<
        [k |-> "A", v |-> [availabilities |-> (K31 :> S_Reserved) @@ (K01 :> S_Open)]],
        [k |-> "B", v |-> JsonNull] >>]],
    [json |-> [campsites |-> <<
        [k |-> "B", v |-> [site |-> "B2"]],
        [k |-> "A", v |-> [site |-> "A9",
                           availabilities |-> (K30 :> S_open) @@ (K01 :> S_Available)]] >>]]
}

-----------------------------------------------------------------------------
(* The state machine *)

Init ==
    /\ campgroundName \in RequestLists
    /\ startDate \in StartDates
    /\ endDate \in EndDates
    /\ target_dates = daterange(startDate, endDate)
    /\ results = EmptyDict
    /\ all_sites = EmptyDict
    /\ pc = "loop"
    /\ idx = 1
    /\ campgroundId = NoneId
    /\ months = <<>>
    /\ mi = 1
    /\ all_avail_data = <<>>
    /\ requests = <<>>
    /\ fetched = <<>>
    /\ failures = EmptyDict

\* for name in campgroundName, a name that does not resolve
UnknownCampground ==
    /\ pc = "loop"
    /\ idx <= Len(campgroundName)
    /\ NameToIdGet(Lower(campgroundName[idx])) = NoneId
    /\ campgroundId' = NoneId
    /\ results' = StoreResult(results, campgroundName[idx], UnknownEntry)
    /\ idx' = idx + 1
    /\ UNCHANGED <<campgroundName, startDate, endDate, target_dates, all_sites, pc,
                   months, mi, all_avail_data, requests, fetched, failures>>

\* for name in campgroundName, a name that resolves: the months of the range
\* are worked out and the merged map starts empty
BeginCampground ==
    /\ pc = "loop"
    /\ idx <= Len(campgroundName)
    /\ NameToIdGet(Lower(campgroundName[idx])) # NoneId
    /\ campgroundId' = NameToIdGet(Lower(campgroundName[idx]))
    /\ months' = MonthsOf(target_dates)
    /\ mi' = 1
    /\ all_avail_data' = FreshAvailData
    /\ fetched' = <<>>
    /\ failures' = DictUpdate(failures, [x \in {campgroundId'} |-> {}])
    /\ pc' = "fetch"
    /\ UNCHANGED <<campgroundName, startDate, endDate, target_dates, results, all_sites,
                   idx, requests>>

\* One turn of the month loop: the request, the merge of its campsites and
\* the except clause
FetchMonth ==
    /\ pc = "fetch"
    /\ mi <= Len(months)
    /\ \E resp \in UpstreamResponses :
        LET month == MonthParam(months[mi])
            r == MergeMonth(all_avail_data, resp)
        IN /\ requests' = Append(requests, [campground_id |-> campgroundId, start_date |-> month])
           /\ all_avail_data' = r.data
           /\ results' = IF r.raised # ""
                         THEN StoreResult(results, campgroundId, FetchErrorEntry(month, r.raised))
                         ELSE results
           /\ mi' = NextMonth(mi, Len(months), r.raised # "")
           /\ fetched' = Append(fetched, [month |-> month, resp |-> resp, raised |-> r.raised # ""])
           /\ failures' = IF r.raised # ""
                          THEN [failures EXCEPT ![campgroundId] = @ \cup {month}]
                          ELSE failures
    /\ UNCHANGED <<campgroundName, startDate, endDate, target_dates, all_sites, pc, idx,
                   campgroundId, months>>

\* After the month loop: the sites of the merged map are classified and the
\* campground's entry is stored; a null site record ends the request with an
\* uncaught exception
Classify ==
    /\ pc = "fetch"
    /\ mi > Len(months)
    /\ LET c == ClassifySites(all_avail_data, target_dates, 1,
                    [fully |-> <<>>, partially |-> <<>>, sites |-> all_sites, crashed |-> FALSE])
       IN IF c.crashed
          THEN /\ pc' = "crashed"
               /\ UNCHANGED <<results, all_sites, idx>>
          ELSE /\ pc' = "loop"
               /\ all_sites' = c.sites
               /\ results' = StoreResult(results, campgroundId,
                                 SuccessEntry(campgroundId, target_dates, c.fully, c.partially))
               /\ idx' = idx + 1
    /\ UNCHANGED <<campgroundName, startDate, endDate, target_dates, campgroundId, months,
                   mi, all_avail_data, requests, fetched, failures>>

\* results["all_sites"] = all_sites, after the last name
Finish ==
    /\ pc = "loop"
    /\ idx > Len(campgroundName)
    /\ results' = StoreResult(results, S_all_sites, all_sites)
    /\ pc' = "done"
    /\ UNCHANGED <<campgroundName, startDate, endDate, target_dates, all_sites, idx,
                   campgroundId, months, mi, all_avail_data, requests, fetched, failures>>

Next ==
    \/ UnknownCampground
    \/ BeginCampground
    \/ FetchMonth
    \/ Classify
    \/ Finish

Spec == Init /\ [][Next]_vars

-----------------------------------------------------------------------------
(* Vocabulary of the properties *)

SuccessFields ==
    {"campground_name", "target_dates", "fully_available_sites", "partially_available_sites"}

IsErrorEntry(e) == "error" \in DOMAIN e

IsSuccessEntry(e) == SuccessFields \subseteq DOMAIN e

\* the name equals a directory name ignoring case
EqualsIgnoringCase(a, b) ==
    /\ Len(a) = Len(b)
    /\ \A i \in 1..Len(a) : a[i] = b[i] \/ LowerChar(a[i]) = b[i] \/ a[i] = LowerChar(b[i])

InDirectory(name) ==
    \E i \in 1..Len(CAMPGROUND_LOOKUP) : EqualsIgnoringCase(name, CAMPGROUND_LOOKUP[i].name)

Resolves(name) == NameToIdGet(Lower(name)) # NoneId

\* the key a requested name is reported under
KeyOf(name) == IF Resolves(name) THEN NameToIdGet(Lower(name)) ELSE name

\* the handler has just stored the entry of campgroundId, classified from
\* all_avail_data, and neither has been touched since
JustClassified == pc \in {"loop", "done"} /\ campgroundId # NoneId

\* the status begins with the word, character by character
BeginsWith(status, word) ==
    /\ Len(status) >= Len(word)
    /\ \A j \in 1..Len(word) : status[j] = word[j]

\* k of a merged site record: the requested nights whose merged status begins
\* with "Available" or "Open"; a night absent from the record is "Missing"
NightsAvailable(rec) ==
    Cardinality({i \in 1..Len(target_dates) :
        LET avail == IF "availabilities" \in DOMAIN rec THEN rec.availabilities ELSE EmptyDict
            status == IF target_dates[i] \in DOMAIN avail THEN avail[target_dates[i]] ELSE S_Missing
        IN BeginsWith(status, S_Available) \/ BeginsWith(status, S_Open)})

InList(list, lbl) == \E j \in 1..Len(list) : list[j] = lbl

SiteLabel(item) ==
    <<IF "site" \in DOMAIN item.v THEN item.v.site ELSE "Site " \o item.k,
      " (", NightsAvailable(item.v), " nights)">>

-----------------------------------------------------------------------------
(* C1 *)

\* C1: in the final aggregate, a resolved campground one of whose month
\* fetches failed has an error entry naming a failing month, not a success
\* payload.
C1_FailedMonthYieldsErrorEntry ==
    pc = "done" =>
        \A cid \in DOMAIN failures :
            failures[cid] # {} =>
                /\ cid \in DOMAIN results
                /\ IsErrorEntry(results[cid])
                /\ ~IsSuccessEntry(results[cid])
                /\ Len(results[cid].error) = 4
                /\ results[cid].error[2] \in failures[cid]

-----------------------------------------------------------------------------
(* C2 *)

\* C2: besides the reserved all_sites entry, the final aggregate holds one
\* entry per requested name, keyed by the resolved identifier when the name
\* resolves and by the supplied name when it does not, each a success or an
\* error.
C2_OneEntryPerRequestedName ==
    pc = "done" =>
        /\ DOMAIN results \ {S_all_sites} =
               {KeyOf(campgroundName[i]) : i \in 1..Len(campgroundName)}
        /\ \A key \in DOMAIN results \ {S_all_sites} :
               IsErrorEntry(results[key]) \/ IsSuccessEntry(results[key])

-----------------------------------------------------------------------------
(* C3 *)

\* C3: for every site of the merged map, with k its available nights among the
\* n requested: its label (which carries k) is in the fully-available list iff
\* k = n and n > 0, in the partially-available list iff 0 < k < n, in neither
\* iff k = 0, never in both; and the lists hold nothing else.
C3_ClassificationByAvailableNights ==
    JustClassified =>
        LET entry == results[campgroundId]
            n == Len(target_dates)
        IN /\ \A i \in 1..Len(all_avail_data) :
                LET k == NightsAvailable(all_avail_data[i].v)
                    lbl == SiteLabel(all_avail_data[i])
                    inFully == InList(entry.fully_available_sites, lbl)
                    inPartially == InList(entry.partially_available_sites, lbl)
                IN /\ inFully <=> (k = n /\ n > 0)
                   /\ inPartially <=> (0 < k /\ k < n)
                   /\ (k = 0) <=> (~inFully /\ ~inPartially)
                   /\ ~(inFully /\ inPartially)
           /\ Len(entry.fully_available_sites) + Len(entry.partially_available_sites)
                = Cardinality({i \in 1..Len(all_avail_data) :
                                  NightsAvailable(all_avail_data[i].v) > 0})

\* a two-night request with a fully available site, whose status on one night
\* is "Available - Tent", beside a site with no available night
C3_Witness ==
    /\ JustClassified
    /\ Len(target_dates) = 2
    /\ \E i, j \in 1..Len(all_avail_data) :
        /\ NightsAvailable(all_avail_data[i].v) = 2
        /\ \E d \in 1..2 :
              /\ "availabilities" \in DOMAIN all_avail_data[i].v
              /\ target_dates[d] \in DOMAIN all_avail_data[i].v.availabilities
              /\ all_avail_data[i].v.availabilities[target_dates[d]] = S_AvailableTent
        /\ InList(results[campgroundId].fully_available_sites, SiteLabel(all_avail_data[i]))
        /\ NightsAvailable(all_avail_data[j].v) = 0

-----------------------------------------------------------------------------
(* C4 *)

\* the merged map of the months a campground was answered, from an empty map
RECURSIVE MergeOfFetched(_, _)
MergeOfFetched(log, j) ==
    IF j = 0 THEN <<>>
    ELSE MergeMonth(MergeOfFetched(log, j - 1), log[j].resp).data

\* the entry of a campground as its own upstream answers alone determine it
EntryOfOwnAnswers(cid, log) ==
    LET c == ClassifySites(MergeOfFetched(log, Len(log)), target_dates, 1,
                 [fully |-> <<>>, partially |-> <<>>, sites |-> EmptyDict, crashed |-> FALSE])
    IN SuccessEntry(cid, target_dates, c.fully, c.partially)

-----------------------------------------------------------------------------
(* C5 *)

\* the positions of the request whose name resolves
ResolvedPositions == {i \in 1..Len(campgroundName) : Resolves(campgroundName[i])}

\* C5: a requested name resolves iff it equals a directory name ignoring case;
\* in the final aggregate every name that does not resolve has an
\* unknown-campground error entry under the literal supplied name, and no
\* upstream request is issued for it.
C5_UnknownNameKeyedBySuppliedName ==
    /\ \A i \in 1..Len(campgroundName) :
          Resolves(campgroundName[i]) <=> InDirectory(campgroundName[i])
    /\ pc = "done" =>
          /\ \A i \in 1..Len(campgroundName) :
                ~Resolves(campgroundName[i]) =>
                    /\ campgroundName[i] \in DOMAIN results
                    /\ IsErrorEntry(results[campgroundName[i]])
                    /\ results[campgroundName[i]].error = UnknownEntry.error
          /\ Len(requests) = Cardinality(ResolvedPositions) * Len(MonthsOf(target_dates))
          /\ \A j \in 1..Len(requests) :
                \E i \in ResolvedPositions :
                    requests[j].campground_id = KeyOf(campgroundName[i])

-----------------------------------------------------------------------------
(* C6 *)

\* C6: in every state of request handling and in the final aggregate, each
\* campground entry of results is a success payload or an error payload, never
\* a record with an error marker and success fields.
C6_EntryIsSuccessOrError ==
    \A key \in DOMAIN results :
        \/ pc = "done" /\ key = S_all_sites
        \/ DOMAIN results[key] = {"error"}
        \/ DOMAIN results[key] = SuccessFields

\* the success entry of a campground has replaced the error entry that one of
\* its month fetches left, beside the error entry of an unknown name
C6_Witness ==
    /\ pc = "done"
    /\ \E cid \in DOMAIN failures :
          failures[cid] # {} /\ IsSuccessEntry(results[cid])
    /\ \E key \in DOMAIN results \ {S_all_sites} : IsErrorEntry(results[key])

-----------------------------------------------------------------------------
(* C7 *)

\* the campsites of the j-th answer of the current campground
CampsitesOf(j) ==
    IF "json" \in DOMAIN fetched[j].resp /\ ~IsNull(fetched[j].resp.json)
    THEN GetOr(fetched[j].resp.json, "campsites", <<>>)
    ELSE <<>>

\* the night statuses the j-th answer gives for a site (none: the site is
\* absent from it, or its record has no availabilities)
StatusesIn(j, site_id) ==
    IF DictHas(CampsitesOf(j), site_id)
    THEN GetOr(DictGet(CampsitesOf(j), site_id), "availabilities", EmptyDict)
    ELSE EmptyDict

\* the merged night statuses of a site
MergedStatuses(site_id) ==
    GetOr(DictGet(all_avail_data, site_id), "availabilities", EmptyDict)

NoMonthRaised == \A j \in 1..Len(fetched) : ~fetched[j].raised

\* C7: when no month fetch of the campground failed, the merged map holds
\* exactly the sites of the months fetched, and for each site exactly the
\* night keys of its records in those months, each with the status of the
\* latest month that has the key.
C7_MergeIsUnionLaterMonthWins ==
    NoMonthRaised =>
        /\ {all_avail_data[i].k : i \in 1..Len(all_avail_data)} =
               UNION {{CampsitesOf(j)[i].k : i \in 1..Len(CampsitesOf(j))} : j \in 1..Len(fetched)}
        /\ \A i \in 1..Len(all_avail_data) :
              LET site_id == all_avail_data[i].k
                  merged == MergedStatuses(site_id)
              IN /\ DOMAIN merged = UNION {DOMAIN StatusesIn(j, site_id) : j \in 1..Len(fetched)}
                 /\ \A key \in DOMAIN merged :
                       LET last == CHOOSE j \in 1..Len(fetched) :
                                       /\ key \in DOMAIN StatusesIn(j, site_id)
                                       /\ \A j2 \in 1..Len(fetched) :
                                              key \in DOMAIN StatusesIn(j2, site_id) => j2 <= j
                       IN merged[key] = StatusesIn(last, site_id)[key]

\* two months fetched without failure that give one site different statuses
\* for the same night key
C7_Witness ==
    /\ pc = "fetch"
    /\ Len(fetched) = 2
    /\ NoMonthRaised
    /\ \E i \in 1..Len(all_avail_data) :
          \E key \in DOMAIN StatusesIn(1, all_avail_data[i].k) :
              /\ key \in DOMAIN StatusesIn(2, all_avail_data[i].k)
              /\ StatusesIn(1, all_avail_data[i].k)[key] # StatusesIn(2, all_avail_data[i].k)[key]

-----------------------------------------------------------------------------
(* C8 *)

\* the merge of the months that were fetched without failure, in fetch order
RECURSIVE MergeOfSucceeded(_, _)
MergeOfSucceeded(log, j) ==
    IF j = 0 THEN <<>>
    ELSE IF log[j].raised THEN MergeOfSucceeded(log, j - 1)
    ELSE MergeMonth(MergeOfSucceeded(log, j - 1), log[j].resp).data

\* C8: after the month loop the merged map equals the merge of the successfully
\* fetched months only: a month whose fetch failed at any point, the merge of
\* its payload included, contributes no site and no night status.
C8_FailedMonthContributesNothing ==
    (pc = "fetch" /\ mi > Len(months)) =>
        all_avail_data = MergeOfSucceeded(fetched, Len(fetched))

-----------------------------------------------------------------------------
(* C9 *)

\* the distinct <<year, month>> pairs the requested range spans
SpannedMonths == {<<target_dates[i][1], target_dates[i][2]>> : i \in 1..Len(target_dates)}

Earlier(a, b) == a[1] < b[1] \/ (a[1] = b[1] /\ a[2] < b[2])

RECURSIVE Ascending(_)
Ascending(S) ==
    IF S = {} THEN <<>>
    ELSE LET first == CHOOSE a \in S : \A b \in S \ {a} : Earlier(a, b)
         IN <<first>> \o Ascending(S \ {first})

\* one request per spanned month of a campground, in ascending month order
MonthRequests(cid) ==
    LET ms == Ascending(SpannedMonths)
    IN [j \in 1..Len(ms) |->
           [campground_id |-> cid, start_date |-> <<ms[j][1], ms[j][2], 1, "T00:00:00.000Z">>]]

\* the requests of the first i names of the request, in caller order
RECURSIVE RequestsFor(_)
RequestsFor(i) ==
    IF i = 0 THEN <<>>
    ELSE RequestsFor(i - 1) \o
         (IF Resolves(campgroundName[i]) THEN MonthRequests(KeyOf(campgroundName[i])) ELSE <<>>)

-----------------------------------------------------------------------------
(* C10 *)

\* the display names of the sites of the merged map
MergedSiteNames ==
    [site_id \in {all_avail_data[i].k : i \in 1..Len(all_avail_data)} |->
        LET rec == DictGet(all_avail_data, site_id)
        IN IF "site" \in DOMAIN rec THEN rec.site ELSE "Site " \o site_id]

\* C10: the all_sites entry of the final aggregate maps every site observed in
\* the classification of a successfully processed campground to its display
\* name, the campground processed last winning a shared identifier, and takes
\* no site from a campground whose processing failed: the index is extended by
\* the sites of a campground when its classification ends and none of its
\* month fetches failed, is left alone by every other step, and is stored
\* under all_sites when the request ends.
C10_SiteIndexOfSuccessfulCampgrounds ==
    [][ /\ (pc = "fetch" /\ pc' = "loop") =>
              all_sites' = IF failures[campgroundId] = {}
                           THEN DictUpdate(all_sites, MergedSiteNames)
                           ELSE all_sites
        /\ ~(pc = "fetch" /\ pc' = "loop") => all_sites' = all_sites
        /\ pc' = "done" => results'[S_all_sites] = all_sites
      ]_vars

====
